---- MODULE Spec2Model ----
(***************************************************************************)
(* build-counter: the Storage contract and its two backends.               *)
(*   ConfigMapStorage (configmap.go): one versioned document mapping a    *)
(*     project name to a JSON-encoded BuildInfo; every write is a          *)
(*     Get / modify / Update of the whole document.                        *)
(*   DatabaseStorage (database.go): one table "builds", one statement per  *)
(*     operation, each operation on its own database handle.               *)
(* Time is counted in ticks, TicksPerSec ticks to the second.              *)
(* Spec runs the Storage methods; HTTPSpec runs the request handlers of   *)
(* part_000 against the Storage interface.                                *)
(***************************************************************************)
EXTENDS Integers, Sequences, FiniteSets, TLC

\* ---------------------------------------------------------------- bounds
MaxOps == 3
MaxTicks == 2
TicksPerSec == 2

Procs == {"p1", "p2"}
NameSeq == <<"a", "b">>
Names == {NameSeq[i] : i \in DOMAIN NameSeq}
BuildIDs == {"x", "y"}

StartClock == TicksPerSec
MaxClock == StartClock + MaxTicks

\* ---------------------------------------------------------------- values
\* An optional value (a Go pointer, a nullable column): <<>> or <<v>>.
Absent == << >>
Some(v) == <<v>>
Present(o) == o # Absent
Val(o) == o[1]

\* A Go error: the fmt.Errorf site that produced it and the wrapped cause.
NoErr == [site |-> "nil", cause |-> "nil"]
Err(site, cause) == [site |-> site, cause |-> cause]
\* Outcome of one request to the medium: "ok" or the reason it was refused.
OK == "ok"

\* time.Time.Unix(): whole seconds since the epoch.
Unix(t) == t \div TicksPerSec

\* int64(finished.Sub(started).Seconds()): conversion truncates toward zero.
DurationUnixDiff(started, finished) == Unix(finished) - Unix(started)
DurationSeconds(started, finished) ==
  LET d == finished - started
  IN IF d >= 0 THEN d \div TicksPerSec ELSE -((-d) \div TicksPerSec)

\* json.Marshal(BuildInfo): "finished" carries omitempty.
Marshal(bi) ==
  IF Present(bi.Finished)
  THEN [name |-> bi.Name, build_id |-> bi.BuildID, started |-> bi.Started,
        finished |-> Val(bi.Finished), id |-> bi.ID]
  ELSE [name |-> bi.Name, build_id |-> bi.BuildID, started |-> bi.Started,
        id |-> bi.ID]

\* A stored value that is not JSON at all.
Garbage == [garbage |-> TRUE]
Decodable(js) == "garbage" \notin DOMAIN js

\* A JSON object that json.Unmarshal accepts although no Build was ever
\* serialized to it: unknown fields are skipped.
ForeignObject == [note |-> "kept by hand"]

\* json.Unmarshal into BuildInfo (only applied to Decodable values): a field
\* the object lacks is left at its zero value, the zero time being before
\* every time of the clock.
Unmarshal(js) ==
  [Name |-> IF "name" \in DOMAIN js THEN js.name ELSE "",
   BuildID |-> IF "build_id" \in DOMAIN js THEN js.build_id ELSE "",
   Started |-> IF "started" \in DOMAIN js THEN js.started ELSE 0,
   Finished |-> IF "finished" \in DOMAIN js THEN Some(js.finished) ELSE Absent,
   ID |-> IF "id" \in DOMAIN js THEN js.id ELSE 0]

\* Build as returned by the read operations of either backend.
ToBuildPlainDuration(id, name, buildID, started, finished) ==
  [id |-> id, name |-> name, build_id |-> buildID, started |-> started,
   finished |-> finished,
   duration |-> IF Present(finished)
                THEN Some(DurationSeconds(started, Val(finished)))
                ELSE Some(0)]
ToBuild(id, name, buildID, started, finished) ==
  [id |-> id, name |-> name, build_id |-> buildID, started |-> started,
   finished |-> finished,
   duration |-> IF Present(finished)
                THEN Some(DurationSeconds(started, Val(finished)))
                ELSE Absent]

\* ConfigMap.Data: project name -> optional serialized BuildInfo.
EmptyData == [n \in Names |-> Absent]
Keys(data) == {n \in Names : Present(data[n])}

NoLocal == [version |-> 0, data |-> EmptyData, id |-> 0]
NoCall == [op |-> "none", name |-> "", buildID |-> ""]
NoRet == [op |-> "none", proc |-> "", name |-> "", buildID |-> "",
          err |-> NoErr, id |-> 0, builds |-> << >>, projects |-> << >>]
NoWrite == [op |-> "none", name |-> "", buildID |-> ""]

\* No request answered yet; no Storage call made by the handler.
NoRequest == [method |-> "", path |-> "", name |-> << >>, build_id |-> << >>]
NoInvoke == [op |-> "none", name |-> << >>, buildID |-> << >>, failed |-> FALSE]
\* The goroutine is not running a handler.
NoHandler == [at |-> "idle", path |-> "", name |-> << >>, build_id |-> << >>,
              failed |-> FALSE]

\* All orderings of a finite set, as sequences without repetition.
Perms(S) ==
  {s \in [1..Cardinality(S) -> S] : \A i, j \in DOMAIN s : i # j => s[i] # s[j]}

\* ---------------------------------------------------------------- state
VARIABLES
  mode,        \* "configmap" (--lightweight) or "database", fixed at startup
  clock,       \* the latest time.Now() / now() handed out, in ticks
  faulted,     \* has the medium been unreachable for some request so far
  ops,         \* number of Storage calls made so far
  cm,          \* the ConfigMap: exists, resourceVersion, Data
  rows,        \* table builds, in insertion order
  nextID,      \* the sequence behind builds.id
  openHandles, \* sql.DB handles opened and not yet closed
  pc,          \* where each caller is inside its Storage call
  call,        \* the call each caller is executing (or made last)
  local,       \* the caller's copy of the document (cm) and the new id
  ret,         \* what the step just taken returned to its caller, if anything
  lastWrite,   \* the successful Start/FinishBuild that made the latest write
  sbHist,      \* per name: was a ConfigMap StartBuild called / acknowledged
  starts,      \* per name: the number of StartBuild calls that returned success
  creator,     \* the operation that created the document, "none" if it was there
  listed,      \* the project names successful ListProjects calls have returned
  requestsTotal,  \* part_000:57, counted by the handlers
  buildsStarted,  \* part_000:58
  buildsFinished, \* part_000:59
  healthChecks,   \* part_000:60
  errorCount,     \* part_000:61
  received,    \* number of HTTP requests the server has been sent
  request,     \* the request answered last
  status,      \* the status code of its response
  validation,  \* what validateInput returned for it, if it was called
  invoked,     \* the Storage call its handler made, and whether that failed
  metrics,     \* the counters its response printed, if it was /metrics
  inflight,    \* where each goroutine is inside startBuild/finishBuildHandler
  succeeded    \* per Storage method: the calls that returned without error

storageVars == <<mode, clock, faulted, ops, cm, rows, nextID, openHandles,
                 pc, call, local, ret, lastWrite, sbHist, starts, creator, listed>>

httpVars == <<requestsTotal, buildsStarted, buildsFinished, healthChecks,
              errorCount, received, request, status, validation, invoked,
              metrics, inflight, succeeded>>

vars == <<mode, clock, faulted, ops, cm, rows, nextID, openHandles,
          pc, call, local, ret, lastWrite, sbHist, starts, creator, listed,
          requestsTotal, buildsStarted, buildsFinished, healthChecks,
          errorCount, received, request, status, validation, invoked, metrics,
          inflight, succeeded>>

dbVars == <<rows, nextID, openHandles>>

\* ---------------------------------------------------------------- init
NoDoc == [exists |-> FALSE, version |-> 0, data |-> EmptyData]

\* The document is missing or was created empty before the server started.
InitDocs == {NoDoc, [exists |-> TRUE, version |-> 1, data |-> EmptyData]}

\* Everything but the backend chosen and the document found at startup.
InitOther ==
  /\ clock = StartClock
  /\ faulted = FALSE
  /\ ops = 0
  /\ rows = << >>
  /\ nextID = 1
  /\ openHandles = 0
  /\ pc = [p \in Procs |-> "idle"]
  /\ call = [p \in Procs |-> NoCall]
  /\ local = [p \in Procs |-> NoLocal]
  /\ ret = NoRet
  /\ lastWrite = NoWrite
  /\ sbHist = [n \in Names |-> "none"]
  /\ starts = [n \in Names |-> 0]
  /\ creator = "none"
  /\ listed = {}
  /\ requestsTotal = 0
  /\ buildsStarted = 0
  /\ buildsFinished = 0
  /\ healthChecks = 0
  /\ errorCount = 0
  /\ received = 0
  /\ request = NoRequest
  /\ status = 0
  /\ validation = Absent
  /\ invoked = NoInvoke
  /\ metrics = Absent
  /\ inflight = [p \in Procs |-> NoHandler]
  /\ succeeded = [StartBuild |-> 0, FinishBuild |-> 0]

Init ==
  /\ mode \in {"configmap", "database"}
  /\ cm \in (IF mode = "configmap" THEN InitDocs ELSE {NoDoc})
  /\ InitOther

\* ---------------------------------------------------------------- helpers
Result(p, c, err, id, builds, projects) ==
  [op |-> c.op, proc |-> p, name |-> c.name, buildID |-> c.buildID,
   err |-> err, id |-> id, builds |-> builds, projects |-> projects]

Fail(p, c, err) == Result(p, c, err, 0, << >>, << >>)
Done(p, c) == Result(p, c, NoErr, 0, << >>, << >>)

\* The call of p returns r.
ReturnRetryConflict(p, r) ==
  IF r.err.cause = "Conflict"
  THEN /\ pc' = pc
       /\ call' = call
       /\ local' = [local EXCEPT ![p].version = cm.version]
       /\ ret' = NoRet
  ELSE /\ pc' = [pc EXCEPT ![p] = "idle"]
       /\ call' = [call EXCEPT ![p] = NoCall]
       /\ local' = [local EXCEPT ![p] = NoLocal]
       /\ ret' = r
Return(p, r) ==
  /\ pc' = [pc EXCEPT ![p] = "idle"]
  /\ call' = [call EXCEPT ![p] = NoCall]
  /\ local' = [local EXCEPT ![p] = NoLocal]
  /\ ret' = r

\* p moves on to label l without returning.
Goto(p, c, l) ==
  /\ pc' = [pc EXCEPT ![p] = l]
  /\ call' = [call EXCEPT ![p] = c]
  /\ ret' = NoRet

\* The calls the HTTP layer can make (part_000:115,167,239,365,395).
Calls ==
  {[op |-> o, name |-> n, buildID |-> b] :
     o \in {"StartBuild", "FinishBuild"}, n \in Names, b \in BuildIDs}
  \cup {[op |-> "GetProjectBuilds", name |-> n, buildID |-> ""] : n \in Names}
  \cup {[op |-> o, name |-> "", buildID |-> ""] :
          o \in {"HealthCheck", "ListProjects"}}

\* The project names in the result r of a successful ListProjects.
ListedBy(r) ==
  IF r.op = "ListProjects" /\ r.err = NoErr
  THEN {r.projects[i].name : i \in DOMAIN r.projects}
  ELSE {}

\* A caller (one goroutine per request) enters Storage method c.op.
Enter(p, c, m) ==
  /\ mode = m
  /\ pc[p] = "idle"
  /\ ops < MaxOps
  /\ ops' = ops + 1

\* ---------------------------------------------------------------- medium
\* Every request to the medium is either served (f = FALSE) or fails because
\* the medium cannot be reached within the call's timeout (f = TRUE).
Unreachable == BOOLEAN

\* client.CoreV1().ConfigMaps(ns).Get
GetErrIgnoreMissing(f) ==
  IF f THEN "Unavailable"
  ELSE OK
GetErr(f) ==
  IF f THEN "Unavailable"
  ELSE IF ~cm.exists THEN "NotFound"
  ELSE OK

\* client.CoreV1().ConfigMaps(ns).Create
CreateErrOverwrite(f) ==
  IF f THEN "Unavailable"
  ELSE OK
CreateErr(f) ==
  IF f THEN "Unavailable"
  ELSE IF cm.exists THEN "AlreadyExists"
  ELSE OK

\* client.CoreV1().ConfigMaps(ns).Update with the resourceVersion that was read
UpdateErrNoVersion(f, version) ==
  IF f THEN "Unavailable"
  ELSE IF ~cm.exists THEN "NotFound"
  ELSE OK
UpdateErr(f, version) ==
  IF f THEN "Unavailable"
  ELSE IF ~cm.exists THEN "NotFound"
  ELSE IF version # cm.version THEN "Conflict"
  ELSE OK

\* ---------------------------------------------------------------- clock
\* time.Now() and the database's now(): any time not before the latest one
\* that was handed out (clock).
Now == clock..MaxClock

\* ---------------------------------------------------------------- ConfigMapStorage
\* configmap.go:98-103: the new BuildInfo.  Started and ID come from two
\* time.Now() calls, d ticks apart.
NewBuildInfoFinished(n, b, t, d) ==
  [Name |-> n, BuildID |-> b, Started |-> t, Finished |-> Some(t),
   ID |-> Unix(t + d)]
NewBuildInfoTickID(n, b, t, d) ==
  [Name |-> n, BuildID |-> b, Started |-> t, Finished |-> Absent,
   ID |-> t + d]
NewBuildInfo(n, b, t, d) ==
  [Name |-> n, BuildID |-> b, Started |-> t, Finished |-> Absent,
   ID |-> Unix(t + d)]

\* cm.Data[name] = string(data)
PutKeyAlone(data, n, bi) == [EmptyData EXCEPT ![n] = Some(Marshal(bi))]
PutKey(data, n, bi) == [data EXCEPT ![n] = Some(Marshal(bi))]

\* The second time.Now() is either in the same second or in the next one.
IDDelays(t) == {0} \cup {d \in {1} : Unix(t + d) # Unix(t) /\ t + d <= MaxClock}

SBPrepare(p, c, doc) ==
  \E t \in Now : \E d \in IDDelays(t) :
  LET bi == NewBuildInfo(c.name, c.buildID, t, d)
  IN /\ clock' = t + d
     /\ local' = [local EXCEPT ![p] =
                    [version |-> doc.version,
                     data |-> PutKey(doc.data, c.name, bi),
                     id |-> bi.ID]]

MarkCalled(n) == IF sbHist[n] = "none" THEN [sbHist EXCEPT ![n] = "called"]
                 ELSE sbHist

\* StartBuild, Get (configmap.go:72-77, 93-110)
CMStartGet(p, c) ==
  /\ Enter(p, c, "configmap")
  /\ c.op = "StartBuild"
  /\ \E f \in Unreachable :
       /\ faulted' = (faulted \/ f)
       /\ IF GetErr(f) = OK
          THEN /\ SBPrepare(p, c, cm)
               /\ Goto(p, c, "sb_update")
          ELSE /\ Goto(p, c, "sb_create")
               /\ UNCHANGED <<clock, local>>
  /\ sbHist' = MarkCalled(c.name)
  /\ UNCHANGED <<mode, cm, dbVars, lastWrite, starts>>
  /\ UNCHANGED <<creator, listed>>
  /\ UNCHANGED httpVars

\* StartBuild, Create after a failed Get (configmap.go:78-110)
CreatedDocNotStored == [exists |-> FALSE, version |-> cm.version, data |-> EmptyData]
CreatedDoc == [exists |-> TRUE, version |-> cm.version + 1, data |-> EmptyData]

CMStartCreate(p) ==
  /\ pc[p] = "sb_create"
  /\ \E f \in Unreachable :
       /\ faulted' = (faulted \/ f)
       /\ IF CreateErr(f) # OK
          THEN /\ Return(p, Fail(p, call[p], Err("failed to create ConfigMap", CreateErr(f))))
               /\ UNCHANGED <<clock, cm, lastWrite, creator>>
          ELSE /\ cm' = CreatedDoc
               /\ SBPrepare(p, call[p], CreatedDoc)
               /\ Goto(p, call[p], "sb_update")
               /\ lastWrite' = NoWrite
               /\ creator' = call[p].op
  /\ UNCHANGED <<mode, ops, dbVars, sbHist, starts>>
  /\ UNCHANGED listed
  /\ UNCHANGED httpVars

\* StartBuild, Update and return (configmap.go:112-118)
CMStartUpdate(p) ==
  /\ pc[p] = "sb_update"
  /\ \E f \in Unreachable :
       /\ faulted' = (faulted \/ f)
       /\ IF UpdateErr(f, local[p].version) # OK
          THEN /\ Return(p, Fail(p, call[p], Err("failed to update ConfigMap",
                                                 UpdateErr(f, local[p].version))))
               /\ UNCHANGED <<cm, lastWrite, sbHist, starts>>
          ELSE /\ cm' = [cm EXCEPT !.version = @ + 1, !.data = local[p].data]
               /\ Return(p, Result(p, call[p], NoErr, local[p].id, << >>, << >>))
               /\ lastWrite' = call[p]
               /\ sbHist' = [sbHist EXCEPT ![call[p].name] = "acked"]
               /\ starts' = [starts EXCEPT ![call[p].name] = @ + 1]
  /\ UNCHANGED <<mode, clock, ops, dbVars>>
  /\ UNCHANGED <<creator, listed>>
  /\ UNCHANGED httpVars

\* FinishBuild, the checks between Get and Update (configmap.go:132-150)
CMFinishCheckNoExists(data, n, b) ==
  IF Keys(data) = {} THEN Err("no build data found for name", "NotFound")
  ELSE IF ~Present(data[n]) THEN Err("failed to unmarshal build info", "Decode")
  ELSE IF ~Decodable(Val(data[n])) THEN Err("failed to unmarshal build info", "Decode")
  ELSE IF Unmarshal(Val(data[n])).BuildID # b THEN Err("build_id mismatch", "Mismatch")
  ELSE NoErr
CMFinishCheckNoMismatch(data, n, b) ==
  IF Keys(data) = {} THEN Err("no build data found for name", "NotFound")
  ELSE IF ~Present(data[n]) THEN Err("no build found for name", "NotFound")
  ELSE IF ~Decodable(Val(data[n])) THEN Err("failed to unmarshal build info", "Decode")
  ELSE NoErr
CMFinishCheck(data, n, b) ==
  IF Keys(data) = {} THEN Err("no build data found for name", "NotFound")
  ELSE IF ~Present(data[n]) THEN Err("no build found for name", "NotFound")
  ELSE IF ~Decodable(Val(data[n])) THEN Err("failed to unmarshal build info", "Decode")
  ELSE IF Unmarshal(Val(data[n])).BuildID # b THEN Err("build_id mismatch", "Mismatch")
  ELSE NoErr

\* configmap.go:152-154: now := time.Now(); buildInfo.Finished = &now
FinishInfoWholeSeconds(bi, now) ==
  [bi EXCEPT !.Finished = Some(Unix(now) * TicksPerSec)]
FinishInfo(bi, now) == [bi EXCEPT !.Finished = Some(now)]

\* FinishBuild, Get (configmap.go:122-162)
CMFinishGet(p, c) ==
  /\ Enter(p, c, "configmap")
  /\ c.op = "FinishBuild"
  /\ \E f \in Unreachable :
       /\ faulted' = (faulted \/ f)
       /\ IF GetErr(f) # OK
          THEN Return(p, Fail(p, c, Err("failed to get ConfigMap", GetErr(f))))
               /\ UNCHANGED clock
          ELSE IF CMFinishCheck(cm.data, c.name, c.buildID) # NoErr
          THEN Return(p, Fail(p, c, CMFinishCheck(cm.data, c.name, c.buildID)))
               /\ UNCHANGED clock
          ELSE /\ \E t \in Now :
                    /\ clock' = t
                    /\ local' = [local EXCEPT ![p] =
                         [version |-> cm.version,
                          data |-> PutKey(cm.data, c.name,
                                     FinishInfo(Unmarshal(Val(cm.data[c.name])), t)),
                          id |-> 0]]
               /\ Goto(p, c, "fb_update")
  /\ UNCHANGED <<mode, cm, dbVars, lastWrite, sbHist, starts>>
  /\ UNCHANGED <<creator, listed>>
  /\ UNCHANGED httpVars

\* FinishBuild, Update and return (configmap.go:164-170)
CMFinishUpdate(p) ==
  /\ pc[p] = "fb_update"
  /\ \E f \in Unreachable :
       /\ faulted' = (faulted \/ f)
       /\ IF UpdateErr(f, local[p].version) # OK
          THEN /\ Return(p, Fail(p, call[p], Err("failed to update ConfigMap",
                                                 UpdateErr(f, local[p].version))))
               /\ UNCHANGED <<cm, lastWrite>>
          ELSE /\ cm' = [cm EXCEPT !.version = @ + 1, !.data = local[p].data]
               /\ Return(p, Done(p, call[p]))
               /\ lastWrite' = call[p]
  /\ UNCHANGED <<mode, clock, ops, dbVars, sbHist, starts>>
  /\ UNCHANGED <<creator, listed>>
  /\ UNCHANGED httpVars

\* HealthCheck, Get (configmap.go:174-178)
CMHealthGet(p, c) ==
  /\ Enter(p, c, "configmap")
  /\ c.op = "HealthCheck"
  /\ \E f \in Unreachable :
       /\ faulted' = (faulted \/ f)
       /\ IF GetErr(f) = OK
          THEN Return(p, Done(p, c))
          ELSE Goto(p, c, "hc_create") /\ UNCHANGED local
  /\ UNCHANGED <<mode, clock, cm, dbVars, lastWrite, sbHist, starts>>
  /\ UNCHANGED <<creator, listed>>
  /\ UNCHANGED httpVars

\* HealthCheck, Create after a failed Get (configmap.go:179-193)
CMHealthCreate(p) ==
  /\ pc[p] = "hc_create"
  /\ \E f \in Unreachable :
       /\ faulted' = (faulted \/ f)
       /\ IF CreateErr(f) # OK
          THEN /\ Return(p, Fail(p, call[p], Err("failed to access or create ConfigMap",
                                                 CreateErr(f))))
               /\ UNCHANGED <<cm, lastWrite, creator>>
          ELSE /\ cm' = CreatedDoc
               /\ Return(p, Done(p, call[p]))
               /\ lastWrite' = NoWrite
               /\ creator' = call[p].op
  /\ UNCHANGED <<mode, clock, ops, dbVars, sbHist, starts>>
  /\ UNCHANGED listed
  /\ UNCHANGED httpVars

\* configmap.go:259-271 and 290-302: BuildInfo -> Build
InfoToBuildZeroID(bi) == ToBuild(0, bi.Name, bi.BuildID, bi.Started, bi.Finished)
InfoToBuild(bi) == ToBuild(bi.ID, bi.Name, bi.BuildID, bi.Started, bi.Finished)

\* ListBuilds (configmap.go:224-248): the keys of the decodable entries.
ListBuilds(data) == {n \in Keys(data) : Decodable(Val(data[n]))}

\* ListProjects (configmap.go:251-281); Go iterates the map in any order.
CMListProjects(p, c) ==
  /\ Enter(p, c, "configmap")
  /\ c.op = "ListProjects"
  /\ \E f \in Unreachable :
       /\ faulted' = (faulted \/ f)
       /\ IF GetErr(f) # OK
          THEN Return(p, Fail(p, c, Err("failed to list builds", GetErr(f))))
          ELSE \E order \in Perms(ListBuilds(cm.data)) :
                 Return(p, Result(p, c, NoErr, 0, << >>,
                   [i \in DOMAIN order |->
                      [name |-> order[i],
                       latestBuild |-> InfoToBuild(Unmarshal(Val(cm.data[order[i]]))),
                       buildCount |-> 1]]))
  /\ UNCHANGED <<mode, clock, cm, dbVars, lastWrite, sbHist, starts>>
  /\ UNCHANGED creator
  /\ listed' = listed \cup ListedBy(ret')
  /\ UNCHANGED httpVars

\* GetBuildInfo (configmap.go:197-221), after a successful Get
GetBuildInfoErr(data, n) ==
  IF Keys(data) = {} THEN Err("no build data found", "NotFound")
  ELSE IF ~Present(data[n]) THEN Err("no build found for name", "NotFound")
  ELSE IF ~Decodable(Val(data[n])) THEN Err("failed to unmarshal build info", "Decode")
  ELSE NoErr

\* GetProjectBuilds (configmap.go:284-305)
CMGetProjectBuilds(p, c) ==
  /\ Enter(p, c, "configmap")
  /\ c.op = "GetProjectBuilds"
  /\ \E f \in Unreachable :
       /\ faulted' = (faulted \/ f)
       /\ IF GetErr(f) # OK
          THEN Return(p, Fail(p, c, Err("failed to get ConfigMap", GetErr(f))))
          ELSE IF GetBuildInfoErr(cm.data, c.name) # NoErr
          THEN Return(p, Fail(p, c, GetBuildInfoErr(cm.data, c.name)))
          ELSE Return(p, Result(p, c, NoErr, 0,
                                <<InfoToBuild(Unmarshal(Val(cm.data[c.name])))>>, << >>))
  /\ UNCHANGED <<mode, clock, cm, dbVars, lastWrite, sbHist, starts>>
  /\ UNCHANGED <<creator, listed>>
  /\ UNCHANGED httpVars

\* ---------------------------------------------------------------- DatabaseStorage
\* db.SetMaxOpenConns(25): the most connections one sql.DB handle opens.
MaxOpenConns == 25

\* The error text of a failed connectDatabase, per caller.
ConnectSite(op) == IF op = "HealthCheck" THEN "database connection failed"
                   ELSE "unable to connect to database"

\* connectDatabase (database.go:31-51): sql.Open, pool settings, Ping; the
\* handle is closed again when the ping fails.
DBConnectLeakOnPingFailure(p, c) ==
  /\ Enter(p, c, "database")
  /\ \E f \in Unreachable :
       /\ faulted' = (faulted \/ f)
       /\ openHandles' = openHandles + 1
       /\ IF f
          THEN Return(p, Fail(p, c, Err(ConnectSite(c.op), "Unavailable")))
          ELSE /\ Goto(p, c, "db_exec")
               /\ UNCHANGED local
  /\ UNCHANGED <<mode, clock, cm, rows, nextID, lastWrite, sbHist, starts>>
  /\ UNCHANGED <<creator, listed>>
  /\ UNCHANGED httpVars
DBConnect(p, c) ==
  /\ Enter(p, c, "database")
  /\ \E f \in Unreachable :
       /\ faulted' = (faulted \/ f)
       /\ IF f
          THEN /\ Return(p, Fail(p, c, Err(ConnectSite(c.op), "Unavailable")))
               /\ UNCHANGED openHandles
          ELSE /\ openHandles' = openHandles + 1
               /\ Goto(p, c, "db_exec")
               /\ UNCHANGED local
  /\ UNCHANGED <<mode, clock, cm, rows, nextID, lastWrite, sbHist, starts>>
  /\ UNCHANGED <<creator, listed>>
  /\ UNCHANGED httpVars

\* INSERT INTO builds (name, build_id, started) VALUES ($1, $2, now())
InsertRowFinished(rs, id, n, b, now) ==
  Append(rs, [id |-> id, name |-> n, build_id |-> b, started |-> now,
              finished |-> Some(now)])
InsertRowUpsert(rs, id, n, b, now) ==
  IF \E i \in DOMAIN rs : rs[i].name = n /\ rs[i].build_id = b
  THEN [i \in DOMAIN rs |->
          IF rs[i].name = n /\ rs[i].build_id = b
          THEN [rs[i] EXCEPT !.started = now, !.finished = Absent]
          ELSE rs[i]]
  ELSE Append(rs, [id |-> id, name |-> n, build_id |-> b, started |-> now,
                   finished |-> Absent])
InsertRowClockID(rs, id, n, b, now) ==
  Append(rs, [id |-> Unix(now), name |-> n, build_id |-> b, started |-> now,
              finished |-> Absent])
InsertRow(rs, id, n, b, now) ==
  Append(rs, [id |-> id, name |-> n, build_id |-> b, started |-> now,
              finished |-> Absent])

\* StartBuild (database.go:54-73), the statement and the deferred Close.
DBStartBuild(p) ==
  /\ pc[p] = "db_exec" /\ call[p].op = "StartBuild"
  /\ openHandles' = openHandles - 1
  /\ \E f \in Unreachable :
       /\ faulted' = (faulted \/ f)
       /\ IF f
          THEN /\ Return(p, Fail(p, call[p], Err("error inserting new build record",
                                                 "Unavailable")))
               /\ UNCHANGED <<clock, rows, nextID, lastWrite, starts>>
          ELSE /\ \E t \in Now :
                    /\ clock' = t
                    /\ rows' = InsertRow(rows, nextID, call[p].name, call[p].buildID, t)
               /\ nextID' = nextID + 1
               /\ Return(p, Result(p, call[p], NoErr, nextID, << >>, << >>))
               /\ lastWrite' = call[p]
               /\ starts' = [starts EXCEPT ![call[p].name] = @ + 1]
  /\ UNCHANGED <<mode, ops, cm, sbHist>>
  /\ UNCHANGED <<creator, listed>>
  /\ UNCHANGED httpVars

\* ... WHERE name = $1 AND build_id = $2
Matches(r, n, b) == r.name = n /\ r.build_id = b

\* UPDATE builds SET finished = NOW() WHERE name = $1 AND build_id = $2
UpdateFinishedByName(rs, n, b, now) ==
  [i \in DOMAIN rs |-> IF rs[i].name = n
                       THEN [rs[i] EXCEPT !.finished = Some(now)]
                       ELSE rs[i]]
UpdateFinished(rs, n, b, now) ==
  [i \in DOMAIN rs |-> IF Matches(rs[i], n, b)
                       THEN [rs[i] EXCEPT !.finished = Some(now)]
                       ELSE rs[i]]

\* database.go:88-93: the sql.Result of Exec is discarded, only err is tested.
FinishResultRowsAffected(rs, n, b) ==
  IF \E i \in DOMAIN rs : Matches(rs[i], n, b) THEN NoErr
  ELSE Err("no build found", "NotFound")
FinishResult(rs, n, b) == NoErr

\* FinishBuild (database.go:76-94)
DBFinishBuild(p) ==
  /\ pc[p] = "db_exec" /\ call[p].op = "FinishBuild"
  /\ openHandles' = openHandles - 1
  /\ \E f \in Unreachable :
       /\ faulted' = (faulted \/ f)
       /\ IF f
          THEN /\ Return(p, Fail(p, call[p], Err("error updating finish time",
                                                 "Unavailable")))
               /\ UNCHANGED <<clock, rows, lastWrite>>
          ELSE /\ \E t \in Now :
                    /\ clock' = t
                    /\ rows' = UpdateFinished(rows, call[p].name, call[p].buildID, t)
               /\ Return(p, Fail(p, call[p],
                                 FinishResult(rows, call[p].name, call[p].buildID)))
               /\ lastWrite' = call[p]
  /\ UNCHANGED <<mode, ops, cm, nextID, sbHist, starts>>
  /\ UNCHANGED <<creator, listed>>
  /\ UNCHANGED httpVars

\* HealthCheck (database.go:97-112)
DBHealthCheck(p) ==
  /\ pc[p] = "db_exec" /\ call[p].op = "HealthCheck"
  /\ openHandles' = openHandles - 1
  /\ \E f \in Unreachable :
       /\ faulted' = (faulted \/ f)
       /\ IF f
          THEN Return(p, Fail(p, call[p], Err("database ping failed", "Unavailable")))
          ELSE Return(p, Done(p, call[p]))
  /\ UNCHANGED <<mode, clock, ops, cm, rows, nextID, lastWrite, sbHist, starts>>
  /\ UNCHANGED <<creator, listed>>
  /\ UNCHANGED httpVars

\* database.go:149-162 and 198-210: a scanned row -> Build
RowToBuild(r) == ToBuild(r.id, r.name, r.build_id, r.started, r.finished)

\* The rows (positions in the table) of project n.
RowsOf(rs, n) == {i \in DOMAIN rs : rs[i].name = n}

\* SELECT DISTINCT ON (name) ... ORDER BY name, started DESC: per name the
\* first row in that order; rows with equal started come in any order.
EarliestRows(rs, n) ==
  {i \in RowsOf(rs, n) : \A j \in RowsOf(rs, n) : rs[j].started >= rs[i].started}
LatestRows(rs, n) ==
  {i \in RowsOf(rs, n) : \A j \in RowsOf(rs, n) : rs[j].started <= rs[i].started}

\* (SELECT COUNT(*) FROM builds b2 WHERE b2.name = builds.name)
BuildCount(rs, n) == Cardinality(RowsOf(rs, n))

\* The names of the result, in ORDER BY name order.
ProjectNamesPerRow(rs) == [i \in DOMAIN rs |-> rs[i].name]
ProjectNames(rs) == SelectSeq(NameSeq, LAMBDA n : RowsOf(rs, n) # {})

\* ListProjects (database.go:115-167)
DBListProjects(p) ==
  /\ pc[p] = "db_exec" /\ call[p].op = "ListProjects"
  /\ openHandles' = openHandles - 1
  /\ \E f \in Unreachable :
       /\ faulted' = (faulted \/ f)
       /\ IF f
          THEN Return(p, Fail(p, call[p], Err("error querying projects", "Unavailable")))
          ELSE \E pick \in [Names -> DOMAIN rows \cup {0}] :
                 /\ \A n \in Names : IF RowsOf(rows, n) = {} THEN pick[n] = 0
                                     ELSE pick[n] \in LatestRows(rows, n)
                 /\ Return(p, Result(p, call[p], NoErr, 0, << >>,
                      [i \in DOMAIN ProjectNames(rows) |->
                         LET n == ProjectNames(rows)[i]
                         IN [name |-> n,
                             latestBuild |-> RowToBuild(rows[pick[n]]),
                             buildCount |-> BuildCount(rows, n)]]))
  /\ UNCHANGED <<mode, clock, ops, cm, rows, nextID, lastWrite, sbHist, starts>>
  /\ UNCHANGED creator
  /\ listed' = listed \cup ListedBy(ret')
  /\ UNCHANGED httpVars

\* ... ORDER BY started DESC
StartedAsc(rs, order) ==
  \A i, j \in DOMAIN order : i < j => rs[order[i]].started <= rs[order[j]].started
StartedDesc(rs, order) ==
  \A i, j \in DOMAIN order : i < j => rs[order[i]].started >= rs[order[j]].started

\* GetProjectBuilds (database.go:170-214)
DBGetProjectBuilds(p) ==
  /\ pc[p] = "db_exec" /\ call[p].op = "GetProjectBuilds"
  /\ openHandles' = openHandles - 1
  /\ \E f \in Unreachable :
       /\ faulted' = (faulted \/ f)
       /\ IF f
          THEN Return(p, Fail(p, call[p], Err("error querying builds for project",
                                              "Unavailable")))
          ELSE \E order \in Perms(RowsOf(rows, call[p].name)) :
                 /\ StartedDesc(rows, order)
                 /\ Return(p, Result(p, call[p], NoErr, 0,
                      [k \in DOMAIN order |-> RowToBuild(rows[order[k]])], << >>))
  /\ UNCHANGED <<mode, clock, ops, cm, rows, nextID, lastWrite, sbHist, starts>>
  /\ UNCHANGED <<creator, listed>>
  /\ UNCHANGED httpVars

\* ---------------------------------------------------------------- specification
Next ==
  \/ \E p \in Procs, c \in Calls : CMStartGet(p, c)
  \/ \E p \in Procs : CMStartCreate(p)
  \/ \E p \in Procs : CMStartUpdate(p)
  \/ \E p \in Procs, c \in Calls : CMFinishGet(p, c)
  \/ \E p \in Procs : CMFinishUpdate(p)
  \/ \E p \in Procs, c \in Calls : CMHealthGet(p, c)
  \/ \E p \in Procs : CMHealthCreate(p)
  \/ \E p \in Procs, c \in Calls : CMListProjects(p, c)
  \/ \E p \in Procs, c \in Calls : CMGetProjectBuilds(p, c)
  \/ \E p \in Procs, c \in Calls : DBConnect(p, c)
  \/ \E p \in Procs : DBStartBuild(p)
  \/ \E p \in Procs : DBFinishBuild(p)
  \/ \E p \in Procs : DBHealthCheck(p)
  \/ \E p \in Procs : DBListProjects(p)
  \/ \E p \in Procs : DBGetProjectBuilds(p)

Spec == Init /\ [][Next]_vars

\* ---------------------------------------------------------------- a document edited by hand
\* The ConfigMap belongs to the cluster, not to the service: before the
\* server starts, somebody has put a value under a project's key that no
\* StartBuild or FinishBuild wrote.
ForeignValues == {Garbage, ForeignObject}
ForeignDocs ==
  {[exists |-> TRUE, version |-> 1,
    data |-> [n \in Names |-> IF n = NameSeq[1] THEN Some(v) ELSE Absent]] :
     v \in ForeignValues}

DecodeInit ==
  /\ mode = "configmap"
  /\ cm \in ForeignDocs
  /\ InitOther

\* The methods of ConfigMapStorage.
CMNext ==
  \/ \E p \in Procs, c \in Calls : CMStartGet(p, c)
  \/ \E p \in Procs : CMStartCreate(p)
  \/ \E p \in Procs : CMStartUpdate(p)
  \/ \E p \in Procs, c \in Calls : CMFinishGet(p, c)
  \/ \E p \in Procs : CMFinishUpdate(p)
  \/ \E p \in Procs, c \in Calls : CMHealthGet(p, c)
  \/ \E p \in Procs : CMHealthCreate(p)
  \/ \E p \in Procs, c \in Calls : CMListProjects(p, c)
  \/ \E p \in Procs, c \in Calls : CMGetProjectBuilds(p, c)

DecodeSpec == DecodeInit /\ [][CMNext]_vars

\* ---------------------------------------------------------------- HTTP layer
\* The handlers of part_000, written against the Storage interface
\* (part_000:44-50): whatever implements it, a call either returns an error
\* or does not.  One request is answered per step; the counters are updated
\* with atomic adds, so the order of concurrent handlers does not show in them.
MaxRequests == 2

\* validateInput's upper limit on len(name) and len(buildID).
MaxFieldLen == 255

\* A string is a sequence of runs, each one byte repeated n times.  "a" stands
\* for the bytes of [a-zA-Z0-9_-], "." for the byte buildIDPattern adds, " "
\* for white space and "!" for every other byte.
Bytes == {"a", ".", "!", " "}
Run(ch, n) == [ch |-> ch, n |-> n]

\* The query parameters sent: nothing or one run of a byte, of a length at
\* either end of what validateInput accepts or just past it, as it is or
\* with white space around it.
Cores ==
  {<< >>}
  \cup {<<Run("a", n)>> : n \in {1, MaxFieldLen, MaxFieldLen + 1}}
  \cup {<<Run(".", n)>> : n \in {1, MaxFieldLen + 1}}
  \cup {<<Run("!", 1)>>}
Padded(s) == <<Run(" ", 1)>> \o s \o <<Run(" ", 1)>>
Strings == Cores \cup {Padded(s) : s \in Cores}

\* len(s): the number of bytes.
RECURSIVE len(_)
len(s) == IF s = << >> THEN 0 ELSE s[1].n + len(Tail(s))

\* strings.TrimSpace: leading and trailing white space removed, inner kept.
RECURSIVE TrimLeft(_)
TrimLeft(s) ==
  IF s # << >> /\ s[1].ch = " " THEN TrimLeft(Tail(s)) ELSE s
RECURSIVE TrimRight(_)
TrimRight(s) ==
  IF s # << >> /\ s[Len(s)].ch = " "
  THEN TrimRight(SubSeq(s, 1, Len(s) - 1)) ELSE s
TrimSpace(s) == TrimRight(TrimLeft(s))

\* ^[a-zA-Z0-9_-]+$ and ^[a-zA-Z0-9_.-]+$ : the bytes each pattern admits;
\* "$" without the m flag is the end of the text.
namePattern == {"a"}
buildIDPattern == {"a", "."}

\* (*Regexp).MatchString for a pattern ^[class]+$.
MatchString(class, s) == s # << >> /\ \A i \in DOMAIN s : s[i].ch \in class

\* validateInput (part_000:75-89)
validateInputCharsFirst(name, buildID) ==
  IF ~MatchString(namePattern, name)
  THEN Err("name contains invalid characters", "Invalid")
  ELSE IF ~MatchString(buildIDPattern, buildID)
  THEN Err("build_id contains invalid characters", "Invalid")
  ELSE IF len(name) = 0 \/ len(name) > MaxFieldLen
  THEN Err("name must be between 1 and 255 characters", "Invalid")
  ELSE IF len(buildID) = 0 \/ len(buildID) > MaxFieldLen
  THEN Err("build_id must be between 1 and 255 characters", "Invalid")
  ELSE NoErr
validateInput(name, buildID) ==
  IF len(name) = 0 \/ len(name) > MaxFieldLen
  THEN Err("name must be between 1 and 255 characters", "Invalid")
  ELSE IF len(buildID) = 0 \/ len(buildID) > MaxFieldLen
  THEN Err("build_id must be between 1 and 255 characters", "Invalid")
  ELSE IF ~MatchString(namePattern, name)
  THEN Err("name contains invalid characters", "Invalid")
  ELSE IF ~MatchString(buildIDPattern, buildID)
  THEN Err("build_id contains invalid characters", "Invalid")
  ELSE NoErr

\* The handler called storage.<op>(name, buildID); failed: it returned an error.
Invoke(op, name, buildID, failed) ==
  [op |-> op, name |-> name, buildID |-> buildID, failed |-> failed]

\* atomic.AddInt64 on the five counters.
Count(rt, bs, bf, hc, ec) ==
  /\ requestsTotal' = requestsTotal + rt
  /\ buildsStarted' = buildsStarted + bs
  /\ buildsFinished' = buildsFinished + bf
  /\ healthChecks' = healthChecks + hc
  /\ errorCount' = errorCount + ec

\* What the handler leaves behind: status code, validateInput's result if it
\* was called, the Storage call if one was made, the metrics text if printed.
Reply(code, verr, inv, text) ==
  /\ status' = code
  /\ validation' = verr
  /\ invoked' = inv
  /\ metrics' = text

\* 1 if b holds, else 0.
Bit(b) == IF b THEN 1 ELSE 0

\* startBuildHandler (part_000:91-141).  json.Marshal of Response{NextID int}
\* cannot fail, so the branch at 127-133 is never taken.
startBuildHandler(r) ==
  LET name == TrimSpace(r.name)
      build_id == TrimSpace(r.build_id)
      verr == validateInput(name, build_id)
  IN IF verr # NoErr
     THEN /\ Count(1, 0, 0, 0, 1)
          /\ Reply(400, Some(verr), NoInvoke, Absent)
     ELSE \E failed \in BOOLEAN :
            /\ Count(1, Bit(~failed), 0, 0, Bit(failed))
            /\ Reply(IF failed THEN 500 ELSE 200, Some(verr),
                     Invoke("StartBuild", name, build_id, failed), Absent)

\* finishBuildHandler (part_000:143-179)
finishBuildHandlerAlwaysCreated(r) ==
  LET name == TrimSpace(r.name)
      build_id == TrimSpace(r.build_id)
      verr == validateInput(name, build_id)
  IN IF verr # NoErr
     THEN /\ Count(1, 0, 0, 0, 1)
          /\ Reply(400, Some(verr), NoInvoke, Absent)
     ELSE \E failed \in BOOLEAN :
            /\ Count(1, 0, Bit(~failed), 0, Bit(failed))
            /\ Reply(201, Some(verr),
                     Invoke("FinishBuild", name, build_id, failed), Absent)
finishBuildHandler(r) ==
  LET name == TrimSpace(r.name)
      build_id == TrimSpace(r.build_id)
      verr == validateInput(name, build_id)
  IN IF verr # NoErr
     THEN /\ Count(1, 0, 0, 0, 1)
          /\ Reply(400, Some(verr), NoInvoke, Absent)
     ELSE \E failed \in BOOLEAN :
            /\ Count(1, 0, Bit(~failed), 0, Bit(failed))
            /\ Reply(IF failed THEN 500 ELSE 201, Some(verr),
                     Invoke("FinishBuild", name, build_id, failed), Absent)

\* methodFilter (part_000:220-229): anything but POST is answered here and
\* never reaches next.
methodFilterAnyMethod(r, next) == next
methodFilter(r, next) ==
  IF r.method # "POST"
  THEN /\ Count(0, 0, 0, 0, 0)
       /\ Reply(405, Absent, NoInvoke, Absent)
  ELSE next

\* healthHandler (part_000:231-250)
healthHandler(r) ==
  \E failed \in BOOLEAN :
    /\ Count(1, 0, 0, 1, Bit(failed))
    /\ Reply(IF failed THEN 503 ELSE 200, Absent,
             Invoke("HealthCheck", << >>, << >>, failed), Absent)

\* livenessHandler (part_000:252-258)
livenessHandler(r) ==
  /\ Count(0, 0, 0, 0, 0)
  /\ Reply(200, Absent, NoInvoke, Absent)

\* readinessHandler (part_000:261-281)
readinessHandler(r) ==
  \E failed \in BOOLEAN :
    /\ Count(1, 0, 0, 1, Bit(failed))
    /\ Reply(IF failed THEN 503 ELSE 200, Absent,
             Invoke("HealthCheck", << >>, << >>, failed), Absent)

\* metricsHandler (part_000:283-356): the counters are loaded after this
\* request has been counted.
metricsHandler(r) ==
  /\ Count(1, 0, 0, 0, 0)
  /\ Reply(200, Absent, NoInvoke,
           Some([build_counter_requests_total |-> requestsTotal',
                 build_counter_builds_started_total |-> buildsStarted',
                 build_counter_builds_finished_total |-> buildsFinished',
                 build_counter_health_checks_total |-> healthChecks',
                 build_counter_errors_total |-> errorCount']))

\* apiProjectsHandler (part_000:358-378): the query string is not read.
apiProjectsHandler(r) ==
  \E failed \in BOOLEAN :
    /\ Count(1, 0, 0, 0, Bit(failed))
    /\ Reply(IF failed THEN 500 ELSE 200, Absent,
             Invoke("ListProjects", << >>, << >>, failed), Absent)

\* apiProjectBuildsHandler (part_000:380-408): the name is trimmed but not
\* passed to validateInput.
apiProjectBuildsHandler(r) ==
  LET name == TrimSpace(r.name)
  IN IF name = << >>
     THEN /\ Count(1, 0, 0, 0, 0)
          /\ Reply(400, Absent, NoInvoke, Absent)
     ELSE \E failed \in BOOLEAN :
            /\ Count(1, 0, 0, 0, Bit(failed))
            /\ Reply(IF failed THEN 500 ELSE 200, Absent,
                     Invoke("GetProjectBuilds", name, << >>, failed), Absent)

\* homepageHandler (part_000:410-435)
homepageHandler(r) ==
  \E failed \in BOOLEAN :
    /\ Count(1, 0, 0, 0, Bit(failed))
    /\ Reply(IF failed THEN 500 ELSE 200, Absent,
             Invoke("ListProjects", << >>, << >>, failed), Absent)

\* projectBuildsHandler (part_000:438-467)
projectBuildsHandler(r) ==
  LET name == TrimSpace(r.name)
  IN IF name = << >>
     THEN /\ Count(1, 0, 0, 0, 0)
          /\ Reply(400, Absent, NoInvoke, Absent)
     ELSE \E failed \in BOOLEAN :
            /\ Count(1, 0, 0, 0, Bit(failed))
            /\ Reply(IF failed THEN 500 ELSE 200, Absent,
                     Invoke("GetProjectBuilds", name, << >>, failed), Absent)

\* The requests sent to one route: any method, and the query parameters the
\* route's handler reads.
Methods == {"POST", "GET"}
None == {<< >>}
Requests(path, names, ids) ==
  [method : Methods, path : {path}, name : names, build_id : ids]

\* The server receives r and the handler routed to answers it.  The handlers
\* reach stored state only through the Storage call recorded in invoked.
Serve(r, handler) ==
  /\ received < MaxRequests
  /\ received' = received + 1
  /\ request' = r
  /\ handler
  /\ UNCHANGED storageVars
  /\ UNCHANGED <<inflight, succeeded>>

\* The routes of main (part_000:799-816); "/" also takes every other path.
HTTPNext ==
  \/ \E r \in Requests("/start", Strings, Strings) :
       Serve(r, methodFilter(r, startBuildHandler(r)))
  \/ \E r \in Requests("/finish", Strings, Strings) :
       Serve(r, methodFilter(r, finishBuildHandler(r)))
  \/ \E r \in Requests("/health", None, None) : Serve(r, healthHandler(r))
  \/ \E r \in Requests("/healthz", None, None) : Serve(r, livenessHandler(r))
  \/ \E r \in Requests("/readyz", None, None) : Serve(r, readinessHandler(r))
  \/ \E r \in Requests("/metrics", None, None) : Serve(r, metricsHandler(r))
  \/ \E r \in Requests("/api/projects", Strings, None) :
       Serve(r, apiProjectsHandler(r))
  \/ \E r \in Requests("/api/projects/", Strings, None) :
       Serve(r, apiProjectBuildsHandler(r))
  \/ \E r \in Requests("/", None, None) : Serve(r, homepageHandler(r))
  \/ \E r \in Requests("/project", Strings, None) :
       Serve(r, projectBuildsHandler(r))

\* The handlers never look at what is stored: it starts out empty here.
HTTPInit == Init /\ cm = NoDoc

HTTPSpec == HTTPInit /\ [][HTTPNext]_vars

\* ---------------------------------------------------------------- handlers in flight
\* startBuildHandler and finishBuildHandler as net/http runs them: one
\* goroutine per request, any number at once.  A step is what one goroutine
\* does up to its next access to something shared: a counter or Storage.
\* The requests are POSTs, which methodFilter lets through.

\* atomic.AddInt64(&v, delta): read, add and write in one indivisible step.
AddInt64Store(v, delta) == delta
AddInt64(v, delta) == v + delta

\* The name and build_id parameters sent here: acceptable, or missing.
Params == {<<Run("a", 1)>>, << >>}

\* part_000:94-100 / 146-152: the request is counted, the parameters are
\* read and trimmed.
HandlerEnter(p, r) ==
  /\ inflight[p].at = "idle"
  /\ r.method = "POST"
  /\ received < MaxRequests
  /\ received' = received + 1
  /\ requestsTotal' = AddInt64(requestsTotal, 1)
  /\ inflight' = [inflight EXCEPT ![p] =
                    [at |-> "entered", path |-> r.path,
                     name |-> TrimSpace(r.name),
                     build_id |-> TrimSpace(r.build_id), failed |-> FALSE]]
  /\ UNCHANGED <<buildsStarted, buildsFinished, healthChecks, errorCount,
                 request, status, validation, invoked, metrics, succeeded>>
  /\ UNCHANGED storageVars

\* part_000:107-115 / 159-167: validateInput, then the Storage call, which
\* returns an error or does not.
HandlerCall(p) ==
  LET h == inflight[p]
      op == IF h.path = "/start" THEN "StartBuild" ELSE "FinishBuild"
  IN /\ h.at = "entered"
     /\ IF validateInput(h.name, h.build_id) # NoErr
        THEN /\ errorCount' = AddInt64(errorCount, 1)
             /\ inflight' = [inflight EXCEPT ![p] = NoHandler]
             /\ UNCHANGED succeeded
        ELSE \E failed \in BOOLEAN :
               /\ inflight' = [inflight EXCEPT ![p] =
                                 [h EXCEPT !.at = "returned",
                                           !.failed = failed]]
               /\ succeeded' = [succeeded EXCEPT ![op] = @ + Bit(~failed)]
               /\ UNCHANGED errorCount
     /\ UNCHANGED <<requestsTotal, buildsStarted, buildsFinished,
                    healthChecks, received, request, status, validation,
                    invoked, metrics>>
     /\ UNCHANGED storageVars

\* part_000:116-124 / 168-177: the error or the build is counted and the
\* response written.
HandlerCount(p) ==
  LET h == inflight[p]
  IN /\ h.at = "returned"
     /\ IF h.failed
        THEN /\ errorCount' = AddInt64(errorCount, 1)
             /\ UNCHANGED <<buildsStarted, buildsFinished>>
        ELSE IF h.path = "/start"
        THEN /\ buildsStarted' = AddInt64(buildsStarted, 1)
             /\ UNCHANGED <<buildsFinished, errorCount>>
        ELSE /\ buildsFinished' = AddInt64(buildsFinished, 1)
             /\ UNCHANGED <<buildsStarted, errorCount>>
     /\ inflight' = [inflight EXCEPT ![p] = NoHandler]
     /\ UNCHANGED <<requestsTotal, healthChecks, received, request, status,
                    validation, invoked, metrics, succeeded>>
     /\ UNCHANGED storageVars

HandlerNext ==
  \/ \E p \in Procs, r \in Requests("/start", Params, Params) :
       HandlerEnter(p, r)
  \/ \E p \in Procs, r \in Requests("/finish", Params, Params) :
       HandlerEnter(p, r)
  \/ \E p \in Procs : HandlerCall(p)
  \/ \E p \in Procs : HandlerCount(p)

HandlerSpec == HTTPInit /\ [][HandlerNext]_vars

\* ---------------------------------------------------------------- properties
\* Every Build handed back by the read that just returned.
ReturnedBuilds(r) ==
  {r.builds[i] : i \in DOMAIN r.builds}
  \cup {r.projects[i].latestBuild : i \in DOMAIN r.projects}

\* The records the ConfigMap holds, decoded.
CMRecords == {Unmarshal(Val(cm.data[n])) : n \in ListBuilds(cm.data)}

\* d is (finished - started) cut to whole seconds.
WholeSeconds(d, started, finished) ==
  /\ d * TicksPerSec <= finished - started
  /\ finished - started < (d + 1) * TicksPerSec

AllIdle == \A p \in Procs : pc[p] = "idle"

\* The step taken is p entering FinishBuild on the ConfigMap; its arguments.
EntersCMFinish(p) ==
  /\ mode = "configmap"
  /\ pc[p] = "idle"
  /\ \/ pc'[p] = "fb_update"
     \/ ret'.proc = p /\ ret'.op = "FinishBuild"
FinishArgs(p) ==
  IF pc'[p] = "fb_update" THEN call'[p]
  ELSE [op |-> "FinishBuild", name |-> ret'.name, buildID |-> ret'.buildID]

\* The document holds a decodable record for n whose build_id is not b.
HasOtherBuild(data, n, b) ==
  /\ Present(data[n])
  /\ Decodable(Val(data[n]))
  /\ Unmarshal(Val(data[n])).BuildID # b

\* C1: a GetProjectBuilds(name) that reads right after a successful
\* StartBuild(name, buildID), with no write in between, fails only if the
\* medium is unreachable and otherwise returns a record with that buildID
\* whose finished and duration are absent (both backends).
C1_StartThenRead ==
  (ret.op = "GetProjectBuilds" /\ lastWrite.op = "StartBuild"
     /\ lastWrite.name = ret.name)
  => /\ ret.err = NoErr \/ ret.err.cause = "Unavailable"
     /\ ret.err = NoErr =>
          \E i \in DOMAIN ret.builds :
            /\ ret.builds[i].build_id = lastWrite.buildID
            /\ ret.builds[i].finished = Absent
            /\ ret.builds[i].duration = Absent

C1_Witness ==
  /\ mode = "database"
  /\ ret.op = "GetProjectBuilds" /\ ret.err = NoErr
  /\ lastWrite.op = "StartBuild" /\ lastWrite.name = ret.name
  /\ Len(ret.builds) = 2

\* C2: after a successful FinishBuild(name, buildID) every stored record of
\* that pair has finished present, and a read that follows with no write in
\* between reports, for each such record, finished present and duration equal
\* to finished - started cut to whole seconds (both backends).
C2_FinishThenRead ==
  /\ (ret.op = "FinishBuild" /\ ret.err = NoErr) =>
       /\ mode = "configmap" =>
            \E bi \in CMRecords : /\ bi.Name = ret.name
                                  /\ bi.BuildID = ret.buildID
                                  /\ Present(bi.Finished)
       /\ \A i \in DOMAIN rows :
            Matches(rows[i], ret.name, ret.buildID) => Present(rows[i].finished)
  /\ (ret.op \in {"GetProjectBuilds", "ListProjects"} /\ ret.err = NoErr
        /\ lastWrite.op = "FinishBuild") =>
       \A bd \in ReturnedBuilds(ret) :
         (bd.name = lastWrite.name /\ bd.build_id = lastWrite.buildID) =>
           /\ Present(bd.finished)
           /\ Present(bd.duration)
           /\ WholeSeconds(Val(bd.duration), bd.started, Val(bd.finished))

C2_Witness ==
  /\ ret.op = "GetProjectBuilds" /\ ret.err = NoErr
  /\ lastWrite.op = "FinishBuild" /\ lastWrite.name = ret.name
  /\ \E i \in DOMAIN ret.builds :
       /\ ret.builds[i].build_id = lastWrite.buildID
       /\ ret.builds[i].duration = Some(1)
       /\ Val(ret.builds[i].finished) - ret.builds[i].started >= TicksPerSec

\* C3: on the ConfigMap, FinishBuild(name, buildID) while the document holds a
\* record for name with another build_id never reaches the Update: it returns
\* the mismatch error (or the Get's error when the medium is unreachable) and
\* the document stays as it was; a mismatch error is returned in no other case.
C3_MismatchLeavesDocument ==
  [][ /\ \A p \in Procs :
           (EntersCMFinish(p)
              /\ cm.exists
              /\ HasOtherBuild(cm.data, FinishArgs(p).name, FinishArgs(p).buildID))
           => /\ pc'[p] = "idle"
              /\ ret'.err.cause \in {"Mismatch", "Unavailable"}
              /\ cm' = cm
      /\ ret'.err.cause = "Mismatch" =>
           /\ cm' = cm
           /\ ret'.op = "FinishBuild"
           /\ HasOtherBuild(cm.data, ret'.name, ret'.buildID) ]_vars

C3_Witness ==
  /\ ret.op = "FinishBuild" /\ ret.err.cause = "Mismatch"
  /\ HasOtherBuild(cm.data, ret.name, ret.buildID)

\* C4: on the ConfigMap, FinishBuild(name, buildID) while no record is stored
\* for name (document missing, document empty, key absent) returns a NotFound
\* error (or the Get's error when the medium is unreachable) and neither
\* creates nor changes the document.
C4_FinishNotFound ==
  [][ \A p \in Procs :
        (EntersCMFinish(p)
           /\ (~cm.exists \/ ~Present(cm.data[FinishArgs(p).name])))
        => /\ pc'[p] = "idle"
           /\ ret'.err.cause \in {"NotFound", "Unavailable"}
           /\ cm' = cm ]_vars

C4_Witness ==
  /\ ret.op = "FinishBuild" /\ ret.err.cause = "NotFound"
  /\ cm.exists /\ Keys(cm.data) # {} /\ ~Present(cm.data[ret.name])

\* C5 as claimed: once concurrent StartBuild calls on a reachable ConfigMap
\* have all returned, every name a StartBuild was called for is a key.
C5_AllCalledKeysPresent ==
  (mode = "configmap" /\ AllIdle /\ ~faulted)
  => \A n \in Names : sbHist[n] # "none" => n \in Keys(cm.data)

\* C5 amended: every name for which a StartBuild returned success is a key of
\* the document, at any time and under any interleaving.
C5_AckedKeysPresent ==
  mode = "configmap" =>
    \A n \in Names : sbHist[n] = "acked" => n \in Keys(cm.data)

\* Two racing StartBuild calls have both returned, the medium was reachable
\* throughout; one was acknowledged, the other lost the race.
C5_Witness ==
  /\ mode = "configmap" /\ AllIdle /\ ~faulted
  /\ \E n, m \in Names :
       /\ sbHist[n] = "acked" /\ n \in Keys(cm.data)
       /\ sbHist[m] = "called" /\ m \notin Keys(cm.data)

\* C6 as claimed: a successful FinishBuild leaves every finished timestamp
\* that was already set as it was (both backends).
C6_FinishedSetOnce ==
  [][ (ret'.op = "FinishBuild" /\ ret'.err = NoErr) =>
        /\ \A i \in DOMAIN rows :
             Present(rows[i].finished) => rows'[i].finished = rows[i].finished
        /\ \A n \in ListBuilds(cm.data) :
             Present(Unmarshal(Val(cm.data[n])).Finished) =>
               cm'.data[n] = cm.data[n] ]_vars

\* C7: every stored record with finished present has finished >= started
\* (both backends, the clock never going back).
C7_FinishedAfterStarted ==
  /\ \A bi \in CMRecords : Present(bi.Finished) => Val(bi.Finished) >= bi.Started
  /\ \A i \in DOMAIN rows :
       Present(rows[i].finished) => Val(rows[i].finished) >= rows[i].started

C7_Witness ==
  /\ mode = "configmap"
  /\ \E bi \in CMRecords :
       /\ Present(bi.Finished)
       /\ Val(bi.Finished) > bi.Started
       /\ Unix(Val(bi.Finished)) = Unix(bi.Started)

\* C8: on every Build returned by ListProjects or GetProjectBuilds, duration
\* is present exactly when finished is, and then it is finished - started cut
\* to whole seconds (both backends).
C8_DurationIffFinished ==
  \A bd \in ReturnedBuilds(ret) :
    /\ Present(bd.duration) <=> Present(bd.finished)
    /\ Present(bd.finished) =>
         WholeSeconds(Val(bd.duration), bd.started, Val(bd.finished))

C8_Witness ==
  /\ ret.op = "ListProjects" /\ ret.err = NoErr
  /\ \E i \in DOMAIN ret.projects :
       /\ ret.projects[i].latestBuild.duration = Some(0)
       /\ Val(ret.projects[i].latestBuild.finished)
            > ret.projects[i].latestBuild.started

\* C9: on the database, a FinishBuild whose statement executes returns nil
\* whatever the number of matching rows (it fails only when the database is
\* unreachable); with no matching row, and whenever it fails, the table is
\* left as it was.
C9_FinishWithoutMatch ==
  [][ (mode = "database" /\ ret'.op = "FinishBuild") =>
        /\ ret'.err = NoErr \/ ret'.err.cause = "Unavailable"
        /\ (\A i \in DOMAIN rows : ~Matches(rows[i], ret'.name, ret'.buildID))
             => rows' = rows
        /\ ret'.err # NoErr => rows' = rows ]_vars

\* A FinishBuild that matched none of the rows of a non-empty table returned nil.
C9_Witness ==
  /\ mode = "database"
  /\ ret.op = "FinishBuild" /\ ret.err = NoErr
  /\ lastWrite.op = "FinishBuild"
  /\ rows # << >>
  /\ \A i \in DOMAIN rows : ~Matches(rows[i], ret.name, ret.buildID)

\* C10: on the database, ListProjects returns, for every name with rows, a
\* summary whose buildCount is the number of rows of that name and whose
\* latestBuild is a row of that name with the greatest started.
C10_ListProjectsAggregates ==
  (mode = "database" /\ ret.op = "ListProjects" /\ ret.err = NoErr)
  => /\ \A n \in Names : RowsOf(rows, n) # {} =>
            \E i \in DOMAIN ret.projects : ret.projects[i].name = n
     /\ \A i \in DOMAIN ret.projects :
          LET pr == ret.projects[i]
              mine == {j \in DOMAIN rows : rows[j].name = pr.name}
          IN /\ pr.buildCount = Cardinality(mine)
             /\ \E j \in mine :
                  /\ pr.latestBuild.id = rows[j].id
                  /\ pr.latestBuild.name = rows[j].name
                  /\ pr.latestBuild.build_id = rows[j].build_id
                  /\ pr.latestBuild.started = rows[j].started
                  /\ pr.latestBuild.finished = rows[j].finished
                  /\ \A k \in mine : rows[k].started <= rows[j].started

C10_Witness ==
  /\ mode = "database" /\ ret.op = "ListProjects" /\ ret.err = NoErr
  /\ \E i \in DOMAIN ret.projects :
       /\ ret.projects[i].buildCount = 2
       /\ \E j \in DOMAIN rows :
            /\ rows[j].name = ret.projects[i].name
            /\ rows[j].started < ret.projects[i].latestBuild.started

\* C11: on the ConfigMap the document holds, per project name, at most one
\* record (the value under that key, whose name is the key), and only for
\* names a StartBuild succeeded for; a successful StartBuild(name, buildID)
\* leaves under name a new unfinished record with that buildID and the
\* returned id; ListProjects reports every project once, with buildCount 1,
\* however many builds were started for it.
C11_OneRecordPerName ==
  [][ mode = "configmap" =>
        /\ Keys(cm'.data) = {n \in Names : starts'[n] > 0}
        /\ \A n \in Keys(cm'.data) :
             /\ Decodable(Val(cm'.data[n]))
             /\ Unmarshal(Val(cm'.data[n])).Name = n
        /\ (ret'.op = "StartBuild" /\ ret'.err = NoErr) =>
             /\ Present(cm'.data[ret'.name])
             /\ Unmarshal(Val(cm'.data[ret'.name])).BuildID = ret'.buildID
             /\ Unmarshal(Val(cm'.data[ret'.name])).Finished = Absent
             /\ Unmarshal(Val(cm'.data[ret'.name])).ID = ret'.id
             /\ \A n \in Names \ {ret'.name} : cm'.data[n] = cm.data[n]
        /\ (ret'.op = "ListProjects" /\ ret'.err = NoErr) =>
             /\ \A i \in DOMAIN ret'.projects : ret'.projects[i].buildCount = 1
             /\ \A i, j \in DOMAIN ret'.projects :
                  i # j => ret'.projects[i].name # ret'.projects[j].name
             /\ \A n \in Names : starts'[n] > 0 =>
                  \E i \in DOMAIN ret'.projects : ret'.projects[i].name = n ]_vars

\* ListProjects reported buildCount 1 for a project with two successful starts.
C11_Witness ==
  /\ mode = "configmap"
  /\ ret.op = "ListProjects" /\ ret.err = NoErr
  /\ \E i \in DOMAIN ret.projects :
       /\ ret.projects[i].buildCount = 1
       /\ starts[ret.projects[i].name] = 2

\* The project names that have a stored record in the backend in use.
StoredNames ==
  IF mode = "configmap" THEN Keys(cm.data)
  ELSE {rows[i].name : i \in DOMAIN rows}

CMHealthReturns(p) ==
  /\ mode = "configmap"
  /\ ret'.op = "HealthCheck"
  /\ ret'.proc = p

C14_HealthCheckError ==
  [][ \A p \in Procs : CMHealthReturns(p) =>
        /\ ret'.err # NoErr <=> (pc[p] = "hc_create" /\ cm' = cm)
        /\ (pc[p] = "hc_create" /\ cm.exists) =>
             /\ ret'.err # NoErr
             /\ cm' = cm ]_vars

\* The Get failed (medium unreachable) while the document held a record;
\* HealthCheck returned the Create's AlreadyExists and the record is there.
C14_Witness ==
  /\ mode = "configmap"
  /\ ret.op = "HealthCheck" /\ ret.err.cause = "AlreadyExists"
  /\ faulted
  /\ Keys(cm.data) # {}

\* C15: StartBuild never fails because of the records already stored, a
\* record with the same (name, buildID) included: it fails only when the
\* medium refuses a request.  On the database a successful StartBuild appends
\* one row with the given name and buildID, unfinished, under an id no other
\* row has, and leaves every existing row as it was.
C15_DuplicateStart ==
  [][ ret'.op = "StartBuild" =>
        /\ \/ ret'.err = NoErr
           \/ ret'.err.cause \in {"Unavailable", "Conflict", "AlreadyExists"}
        /\ mode = "database" =>
             /\ ret'.err = NoErr \/ ret'.err.cause = "Unavailable"
             /\ ret'.err # NoErr => rows' = rows
             /\ ret'.err = NoErr =>
                  /\ Len(rows') = Len(rows) + 1
                  /\ \A i \in DOMAIN rows : rows'[i] = rows[i]
                  /\ rows'[Len(rows')].id = ret'.id
                  /\ rows'[Len(rows')].name = ret'.name
                  /\ rows'[Len(rows')].build_id = ret'.buildID
                  /\ rows'[Len(rows')].finished = Absent
                  /\ \A i \in DOMAIN rows : rows[i].id # ret'.id ]_vars

\* A second StartBuild of the same (name, buildID) returned success; both
\* rows are stored, under different ids.
C15_Witness ==
  /\ mode = "database"
  /\ ret.op = "StartBuild" /\ ret.err = NoErr
  /\ \E i, j \in DOMAIN rows :
       /\ i < j
       /\ Matches(rows[i], ret.name, ret.buildID)
       /\ Matches(rows[j], ret.name, ret.buildID)
       /\ rows[j].id = ret.id
       /\ rows[i].id # rows[j].id

\* Build b carries the stored fields of row r.
SameAsRow(b, r) ==
  /\ b.id = r.id
  /\ b.name = r.name
  /\ b.build_id = r.build_id
  /\ b.started = r.started
  /\ b.finished = r.finished

C17_SingleRetainedBuild ==
  (mode = "configmap" /\ ret.op = "GetProjectBuilds")
  => /\ ret.err = NoErr \/ ret.err.cause \in {"NotFound", "Unavailable"}
     /\ ret.err = NoErr =>
          /\ Present(cm.data[ret.name])
          /\ Len(ret.builds) = 1
          /\ LET bi == Unmarshal(Val(cm.data[ret.name]))
             IN /\ ret.builds[1].name = bi.Name
                /\ ret.builds[1].name = ret.name
                /\ ret.builds[1].build_id = bi.BuildID
                /\ ret.builds[1].id = bi.ID
                /\ ret.builds[1].started = bi.Started
                /\ ret.builds[1].finished = bi.Finished
     /\ ret.err.cause = "NotFound" =>
          /\ ~cm.exists \/ ~Present(cm.data[ret.name])
          /\ ret.builds = << >>
     /\ (~cm.exists \/ ~Present(cm.data[ret.name])) => ret.err # NoErr

\* The one finished record of the project came back with its stored id.
C17_Witness ==
  /\ mode = "configmap"
  /\ ret.op = "GetProjectBuilds" /\ ret.err = NoErr
  /\ Len(ret.builds) = 1
  /\ Present(ret.builds[1].finished)
  /\ ret.builds[1].id > 0
  /\ ret.builds[1].id = Unmarshal(Val(cm.data[ret.name])).ID

\* Row i is an older duplicate of (n, b): another row of the pair is more
\* recent (started later, or started at the same time and inserted later).
OlderDuplicate(rs, i, n, b) ==
  /\ Matches(rs[i], n, b)
  /\ \E j \in DOMAIN rs :
       /\ j # i
       /\ Matches(rs[j], n, b)
       /\ \/ rs[j].started > rs[i].started
          \/ rs[j].started = rs[i].started /\ j > i

\* C18 as claimed: on the database, a successful FinishBuild(name, buildID)
\* leaves finished as it was on every row of the pair but the most recent.
C18_FinishMostRecentOnly ==
  [][ (mode = "database" /\ ret'.op = "FinishBuild" /\ ret'.err = NoErr) =>
        \A i \in DOMAIN rows :
          OlderDuplicate(rows, i, ret'.name, ret'.buildID)
            => rows'[i].finished = rows[i].finished ]_vars

\* C19: a successful FinishBuild(name, buildID) changes nothing but the
\* finished field of the records of that pair.  Database: no row is added or
\* removed, every row keeps id, name, build_id and started, and rows of
\* another name or another build_id stay as they were.  ConfigMap: the keys
\* stay the same, the values of the other names stay as they were, and the
\* record of name keeps id, name, build_id (the one given) and started.
C19_FinishFrame ==
  [][ (ret'.op = "FinishBuild" /\ ret'.err = NoErr) =>
        /\ Len(rows') = Len(rows)
        /\ nextID' = nextID
        /\ \A i \in DOMAIN rows :
             /\ rows'[i].id = rows[i].id
             /\ rows'[i].name = rows[i].name
             /\ rows'[i].build_id = rows[i].build_id
             /\ rows'[i].started = rows[i].started
             /\ ~Matches(rows[i], ret'.name, ret'.buildID) => rows'[i] = rows[i]
        /\ mode = "configmap" =>
             /\ cm'.exists /\ cm.exists
             /\ Keys(cm'.data) = Keys(cm.data)
             /\ \A n \in Names \ {ret'.name} : cm'.data[n] = cm.data[n]
             /\ Present(cm.data[ret'.name])
             /\ Unmarshal(Val(cm'.data[ret'.name])).ID
                  = Unmarshal(Val(cm.data[ret'.name])).ID
             /\ Unmarshal(Val(cm'.data[ret'.name])).Name
                  = Unmarshal(Val(cm.data[ret'.name])).Name
             /\ Unmarshal(Val(cm'.data[ret'.name])).BuildID
                  = Unmarshal(Val(cm.data[ret'.name])).BuildID
             /\ Unmarshal(Val(cm'.data[ret'.name])).BuildID = ret'.buildID
             /\ Unmarshal(Val(cm'.data[ret'.name])).Started
                  = Unmarshal(Val(cm.data[ret'.name])).Started ]_vars

\* FinishBuild succeeded on the ConfigMap while another project had an
\* unfinished record, which is still unfinished.
C19_Witness ==
  /\ mode = "configmap"
  /\ ret.op = "FinishBuild" /\ ret.err = NoErr
  /\ \E n \in Keys(cm.data) \ {ret.name} :
       Unmarshal(Val(cm.data[n])).Finished = Absent
  /\ Present(cm.data[ret.name])
  /\ Present(Unmarshal(Val(cm.data[ret.name])).Finished)

C23_StartAlwaysCreates ==
  [][ \A p \in Procs :
        (mode = "configmap" /\ pc[p] = "sb_create" /\ pc'[p] # "sb_create"
           /\ ~faulted')
        => /\ pc'[p] = "sb_update"
           /\ cm'.exists
           /\ creator' = "StartBuild" ]_vars

\* C23 amended: a ConfigMap StartBuild whose Get failed issues a Create; when
\* the Create is served while the document is still missing, the document
\* exists, empty, before the record is written; when the medium refuses it
\* (unreachable, or AlreadyExists because another call created the document
\* in between) StartBuild returns that error and the document is untouched.
\* Whenever StartBuild returns success the document exists, holds a record
\* under name, and the returned id is positive and is the id of that record.
C23_StartCreates ==
  [][ \A p \in Procs : mode = "configmap" =>
        /\ (pc[p] = "sb_create" /\ pc'[p] = "sb_update") =>
             /\ ~cm.exists
             /\ cm'.exists /\ cm'.data = EmptyData
             /\ creator' = "StartBuild"
        /\ (pc[p] = "sb_create" /\ pc'[p] = "idle") =>
             /\ ret'.op = "StartBuild" /\ ret'.proc = p
             /\ ret'.err.cause \in {"Unavailable", "AlreadyExists"}
             /\ ret'.err.cause = "AlreadyExists" => cm.exists
             /\ cm' = cm
        /\ (ret'.op = "StartBuild" /\ ret'.proc = p /\ ret'.err = NoErr) =>
             /\ pc[p] = "sb_update"
             /\ cm'.exists
             /\ Present(cm'.data[ret'.name])
             /\ ret'.id > 0
             /\ Unmarshal(Val(cm'.data[ret'.name])).ID = ret'.id ]_vars

\* The first StartBuild created the missing document (version 1), wrote its
\* record (version 2) and returned the stored id.
C23_Witness ==
  /\ mode = "configmap"
  /\ creator = "StartBuild"
  /\ ret.op = "StartBuild" /\ ret.err = NoErr
  /\ cm.exists /\ cm.version = 2
  /\ Keys(cm.data) = {ret.name}
  /\ ret.id > 0
  /\ Unmarshal(Val(cm.data[ret.name])).ID = ret.id

\* The labels a call may move to from label l: always forward, never back to
\* a request it has already made.
MayFollow(l) ==
  CASE l = "idle" -> {"idle", "sb_create", "sb_update", "fb_update",
                      "hc_create", "db_exec"}
    [] l = "sb_create" -> {"sb_update", "idle"}
    [] OTHER -> {"idle"}

\* C24: no Storage call repeats a request.  A call moves only forward
\* through its requests (Get, then Create if the Get failed, then Update; or
\* connect, then one statement) and never stays at a request to issue it
\* again; a write the medium refuses (the document is left as it was) ends
\* the call at once with that error, without a new read or a second write.
C24_NoRetry ==
  [][ \A p \in Procs :
        /\ pc'[p] # pc[p] => pc'[p] \in MayFollow(pc[p])
        /\ (pc'[p] = pc[p] /\ pc[p] # "idle") =>
             /\ local'[p] = local[p]
             /\ call'[p] = call[p]
        /\ (pc[p] \in {"sb_update", "fb_update", "sb_create", "hc_create"}
              /\ (pc'[p] # pc[p] \/ local'[p] # local[p])
              /\ cm' = cm) =>
             /\ pc'[p] = "idle"
             /\ ret'.proc = p
             /\ ret'.err # NoErr
             /\ ret'.err.cause \in {"Unavailable", "Conflict", "AlreadyExists"} ]_vars

\* A FinishBuild whose Update carried a stale resourceVersion returned the
\* Conflict; the record is still unfinished.
C24_Witness ==
  /\ mode = "configmap" /\ ~faulted
  /\ ret.op = "FinishBuild" /\ ret.err.cause = "Conflict"
  /\ Present(cm.data[ret.name])
  /\ Unmarshal(Val(cm.data[ret.name])).Finished = Absent

\* C25 as claimed: all callers share one connection pool, so the connections
\* that may be open at the same time (MaxOpenConns for each sql.DB handle
\* that is open) never exceed the pool maximum, however many Storage
\* operations are running.
C25_SharedBoundedPool ==
  mode = "database" => openHandles * MaxOpenConns <= MaxOpenConns

\* C26 as claimed: on the ConfigMap, a HealthCheck that runs while the medium
\* is reachable (no request has failed for that reason) returns success,
\* whatever other calls it is interleaved with.
C26_HealthCheckWhenReachable ==
  (mode = "configmap" /\ ret.op = "HealthCheck" /\ ~faulted)
  => ret.err = NoErr

\* ---------------------------------------------------------------- C27..C30
\* The request answered last, as its handler sees it after strings.TrimSpace.
TrimmedName == TrimSpace(request.name)
TrimmedBuildID == TrimSpace(request.build_id)

\* C27: Storage.StartBuild and Storage.FinishBuild are called only for a POST
\* to /start or /finish whose trimmed name and build_id pass validateInput,
\* and then with the trimmed values.  A request to /start or /finish with
\* another method is answered 405, and a POST whose name or build_id is
\* missing or invalid is answered 400, in both cases without a Storage call,
\* which is the handlers' only way to stored state.
C27_StartFinishGuarded ==
  LET valid == validateInput(TrimmedName, TrimmedBuildID) = NoErr
  IN /\ invoked.op \in {"StartBuild", "FinishBuild"} =>
          /\ request.path = (IF invoked.op = "StartBuild" THEN "/start"
                             ELSE "/finish")
          /\ request.method = "POST"
          /\ valid
          /\ invoked.name = TrimmedName
          /\ invoked.buildID = TrimmedBuildID
     /\ request.path \in {"/start", "/finish"} =>
          /\ request.method # "POST" => status = 405 /\ invoked = NoInvoke
          /\ (request.method = "POST" /\ ~valid) =>
               status = 400 /\ invoked = NoInvoke

\* After a build was started, a POST to /start with white space around an
\* unacceptable name has been answered 400 without a Storage call.
C27_Witness ==
  /\ buildsStarted = 1
  /\ request.path = "/start" /\ request.method = "POST"
  /\ request.name # TrimmedName
  /\ Present(validation) /\ Val(validation) # NoErr
  /\ status = 400 /\ invoked = NoInvoke

\* The checks of validateInput, one by one.
InRange(s) == len(s) >= 1 /\ len(s) <= MaxFieldLen
OnlyBytes(s, class) == \A i \in DOMAIN s : s[i].ch \in class

\* C28: validateInput(name, buildID) returns nil exactly when both strings
\* have length 1..255, name has only bytes of [a-zA-Z0-9_-] and buildID only
\* bytes of [a-zA-Z0-9_.-]; otherwise it returns the error of the first check
\* that fails, in the order name length, build_id length, name characters,
\* build_id characters.
C28_ValidateInput ==
  Present(validation) =>
    LET got == Val(validation)
        name == TrimmedName
        buildID == TrimmedBuildID
    IN /\ got = NoErr <=>
            /\ InRange(name) /\ InRange(buildID)
            /\ OnlyBytes(name, namePattern)
            /\ OnlyBytes(buildID, buildIDPattern)
       /\ got # NoErr =>
            got.site =
              (IF ~InRange(name)
               THEN "name must be between 1 and 255 characters"
               ELSE IF ~InRange(buildID)
               THEN "build_id must be between 1 and 255 characters"
               ELSE IF ~OnlyBytes(name, namePattern)
               THEN "name contains invalid characters"
               ELSE "build_id contains invalid characters")

\* validateInput was given a name with a byte it does not admit and a
\* build_id one byte too long, and reported the build_id's length.
C28_Witness ==
  /\ Present(validation)
  /\ Val(validation).site = "build_id must be between 1 and 255 characters"
  /\ ~OnlyBytes(TrimmedName, namePattern)
  /\ len(TrimmedBuildID) = MaxFieldLen + 1

\* C29: a handler that called a Storage operation answers 5xx exactly when
\* the operation returned an error: 500 on /start, /finish, the project list
\* and the project builds routes, 503 on /health and /readyz; and 2xx when it
\* returned none.
C29_StorageErrorIs5xx ==
  invoked # NoInvoke =>
    /\ (status >= 500 /\ status <= 599) <=> invoked.failed
    /\ invoked.failed =>
         status = (IF request.path \in {"/health", "/readyz"} THEN 503
                   ELSE 500)
    /\ ~invoked.failed => (status >= 200 /\ status <= 299)

\* FinishBuild returned an error and /finish answered 500, after /readyz had
\* answered 503 to a failed HealthCheck.
C29_Witness ==
  /\ invoked.op = "FinishBuild" /\ invoked.failed /\ status = 500
  /\ healthChecks = 1 /\ errorCount = 2

\* C30: the build_counter_requests_total that /metrics prints is the number
\* of HTTP requests the server has received, whatever their route and method.
C30_RequestsTotalCountsAll ==
  Present(metrics) => Val(metrics).build_counter_requests_total = received

\* ---------------------------------------------------------------- C31..C38
\* No goroutine is inside startBuildHandler or finishBuildHandler.
HandlersIdle == \A p \in Procs : inflight[p].at = "idle"

\* C31: whatever the interleaving of concurrent requests, once every request
\* has completed buildsStarted is the number of StartBuild calls that
\* returned without error and buildsFinished the number of such FinishBuild
\* calls, and neither counter ever decreases.
C31_BuildCountersExact ==
  [][/\ HandlersIdle' => /\ buildsStarted' = succeeded'.StartBuild
                         /\ buildsFinished' = succeeded'.FinishBuild
     /\ buildsStarted' >= buildsStarted
     /\ buildsFinished' >= buildsFinished]_vars

\* Two requests started a build each and both handlers have returned.
C31_Witness ==
  /\ HandlersIdle
  /\ received = 2 /\ requestsTotal = 2
  /\ succeeded.StartBuild = 2 /\ buildsStarted = 2

\* C32: a GET to /api/projects that carries the query parameter name=P is
\* answered with GetProjectBuilds(P), not with the list of all projects.
C32_ProjectsWithNameGivesBuilds ==
  (request.path = "/api/projects" /\ request.method = "GET"
     /\ TrimmedName # << >>) =>
    /\ invoked.op = "GetProjectBuilds"
    /\ invoked.name = TrimmedName

\* The stored values x and y are records of the same build.
SameBuild(x, y) ==
  /\ Unmarshal(x).Name = Unmarshal(y).Name
  /\ Unmarshal(x).BuildID = Unmarshal(y).BuildID
  /\ Unmarshal(x).Started = Unmarshal(y).Started
  /\ Unmarshal(x).ID = Unmarshal(y).ID

\* C33: ConfigMap, the API server refusing an Update made against a stale
\* resourceVersion: no acknowledged write is lost.  When StartBuild returns
\* success its record is stored under its name, when FinishBuild returns
\* success the record of its name has its build_id and finished set, and a
\* stored record changes only by a successful StartBuild for its name, which
\* replaces it, or by a successful FinishBuild for its name, which keeps the
\* build and sets finished.
C33_NoAckedWriteLost ==
  [][ mode = "configmap" =>
        /\ (ret'.op = "StartBuild" /\ ret'.err = NoErr) =>
             /\ Present(cm'.data[ret'.name])
             /\ Unmarshal(Val(cm'.data[ret'.name])).BuildID = ret'.buildID
             /\ Unmarshal(Val(cm'.data[ret'.name])).ID = ret'.id
        /\ (ret'.op = "FinishBuild" /\ ret'.err = NoErr) =>
             /\ Present(cm'.data[ret'.name])
             /\ Unmarshal(Val(cm'.data[ret'.name])).BuildID = ret'.buildID
             /\ Present(Unmarshal(Val(cm'.data[ret'.name])).Finished)
        /\ \A n \in Names :
             (Present(cm.data[n]) /\ cm'.data[n] # cm.data[n]) =>
               /\ ret'.err = NoErr /\ ret'.name = n
               /\ Present(cm'.data[n])
               /\ \/ ret'.op = "StartBuild"
                  \/ /\ ret'.op = "FinishBuild"
                     /\ SameBuild(Val(cm'.data[n]), Val(cm.data[n]))
                     /\ Present(Unmarshal(Val(cm'.data[n])).Finished) ]_vars

\* A StartBuild has just been acknowledged while another call still holds an
\* older copy of the document; the other project's record is in place.
C33_Witness ==
  /\ mode = "configmap"
  /\ ret.op = "StartBuild" /\ ret.err = NoErr
  /\ \E n \in Names \ {ret.name} : Present(cm.data[n])
  /\ \E p \in Procs :
       /\ pc[p] \in {"sb_update", "fb_update"}
       /\ local[p].version < cm.version

\* C34: ConfigMap, any interleaving: a stored record gets finished set only
\* by a successful FinishBuild for its name whose buildID is the record's
\* build_id, and the record written is the build that was stored just before
\* with finished set: a FinishBuild that read an older record, overtaken by
\* a StartBuild for the same name, neither marks the newer record finished
\* nor writes the older one back.
C34_FinishOnlyOwnRecord ==
  [][ mode = "configmap" =>
        \A n \in Names :
          ( /\ Present(cm'.data[n])
            /\ Present(Unmarshal(Val(cm'.data[n])).Finished)
            /\ cm'.data[n] # cm.data[n] ) =>
            /\ ret'.op = "FinishBuild" /\ ret'.err = NoErr
            /\ ret'.name = n
            /\ ret'.buildID = Unmarshal(Val(cm'.data[n])).BuildID
            /\ Present(cm.data[n])
            /\ SameBuild(Val(cm'.data[n]), Val(cm.data[n])) ]_vars

\* A FinishBuild read the record of a build; a StartBuild for the same name
\* replaced it; the FinishBuild's Update was refused and the newer record is
\* stored, unfinished.
C34_Witness ==
  /\ mode = "configmap"
  /\ ret.op = "FinishBuild" /\ ret.err.cause = "Conflict"
  /\ Present(cm.data[ret.name])
  /\ Unmarshal(Val(cm.data[ret.name])).BuildID # ret.buildID
  /\ Unmarshal(Val(cm.data[ret.name])).Finished = Absent

SerializedBuild(js) ==
  DOMAIN js \in {{"name", "build_id", "started", "id"},
                 {"name", "build_id", "started", "id", "finished"}}

\* C36: ConfigMap: when the value stored under a key is not a serialized
\* Build, GetProjectBuilds and FinishBuild for that name return a decode
\* error, and a successful ListProjects lists the names whose values are
\* serialized Builds and no other.
C36_ForeignValueIsDecodeError ==
  /\ ( /\ ret.op \in {"GetProjectBuilds", "FinishBuild"}
       /\ ~faulted
       /\ Present(cm.data[ret.name])
       /\ ~SerializedBuild(Val(cm.data[ret.name])) ) =>
       ret.err.cause = "Decode"
  /\ (ret.op = "ListProjects" /\ ret.err = NoErr) =>
       ListedBy(ret) = {n \in Keys(cm.data) : SerializedBuild(Val(cm.data[n]))}

\* The step is taken by a call of one of the methods in which.
StepOf(which) ==
  \/ ret'.op \in which
  \/ \E p \in Procs : pc'[p] # pc[p] /\ call'[p].op \in which

\* C37: no step of ListProjects or GetProjectBuilds creates or changes stored
\* state, on either backend; on the ConfigMap, when the document does not
\* exist they return an error and the document still does not exist.
C37_ReadsDoNotWrite ==
  [][ StepOf({"ListProjects", "GetProjectBuilds"}) =>
        /\ cm' = cm
        /\ rows' = rows
        /\ nextID' = nextID
        /\ (mode = "configmap" /\ ~cm.exists) => ret'.err # NoErr ]_vars

\* ListProjects found the medium reachable and no document, returned an
\* error, and there is still no document.
C37_Witness ==
  /\ mode = "configmap"
  /\ ret.op = "ListProjects"
  /\ ret.err.cause = "NotFound"
  /\ ~faulted
  /\ ~cm.exists

\* C38: database: a handle is open exactly while the operation that opened
\* it is between connectDatabase and its return, whatever the outcome of the
\* ping and of the statement; so no handle is open once every operation has
\* returned.
C38_HandlesClosed ==
  mode = "database" =>
    /\ openHandles = Cardinality({p \in Procs : pc[p] = "db_exec"})
    /\ AllIdle => openHandles = 0

\* Every operation has returned, the last one with a failed INSERT on a
\* handle it had opened, and no handle is open.
C38_Witness ==
  /\ mode = "database"
  /\ AllIdle
  /\ ops = MaxOps
  /\ ret.err.site = "error inserting new build record"
  /\ openHandles = 0

====
